---- MODULE Spec2Model ----
(***************************************************************************)
(* Hybrid access-control engine of the HR backend: the user_permissions    *)
(* store (create / update / delete / bulk replace), the permission         *)
(* resolver has_permission, the PermissionMiddleware and the scope-derived *)
(* global access predicate.                                                *)
(*                                                                         *)
(* Strings are sequences of one-character strings, so that rstrip, split,  *)
(* join and startswith are computed as Python computes them.               *)
(***************************************************************************)
EXTENDS Integers, Sequences, FiniteSets, TLC

VARIABLES perms, last, scopes, role, departments, employees, requests

vars == <<perms, last, scopes, role, departments, employees, requests>>

\* ------------------------------------------------------------------ bounds

\* Largest number of rows the user_permissions table holds in the model.
MaxRows == 2

\* Largest number of rows the user_scopes table holds in the model.
MaxScopes == 2

\* Largest number of rows of the departments table, and of the employees
\* table, when every parent and every supervisor is tried.
MaxNodes == 4

\* Number of departments, or of employees, that concurrent requests re-parent.
RaceNodes == 3

\* Largest number of '/'-separated segments of the paths normalize_endpoint
\* is applied to.
MaxSegments == 5

\* ----------------------------------------------------------------- strings

Slash == "/"

Empty == << >>

W_api == <<"a", "p", "i">>

W_v1 == <<"v", "1">>

W_individuals == <<"i", "n", "d", "i", "v", "i", "d", "u", "a", "l", "s">>

W_with_user == <<"w", "i", "t", "h", "-", "u", "s", "e", "r">>

W_token == <<"t", "o", "k", "e", "n">>

W_tokens == <<"t", "o", "k", "e", "n", "s">>

W_docs == <<"d", "o", "c", "s">>

W_redoc == <<"r", "e", "d", "o", "c">>

W_openapi_json == <<"o", "p", "e", "n", "a", "p", "i", ".", "j", "s", "o", "n">>

W_health == <<"h", "e", "a", "l", "t", "h">>

W_users == <<"u", "s", "e", "r", "s">>

\* sep.join(parts)
RECURSIVE Join(_)
Join(parts) ==
    IF Len(parts) = 0 THEN Empty
    ELSE IF Len(parts) = 1 THEN parts[1]
    ELSE parts[1] \o <<Slash>> \o Join(Tail(parts))

\* s.split("/"): always at least one part
RECURSIVE SplitFrom(_, _, _)
SplitFrom(s, i, cur) ==
    IF i > Len(s) THEN <<cur>>
    ELSE IF s[i] = Slash THEN <<cur>> \o SplitFrom(s, i + 1, Empty)
    ELSE SplitFrom(s, i + 1, Append(cur, s[i]))

Split(s) == SplitFrom(s, 1, Empty)

\* s.rstrip('/'): drops every trailing slash
RECURSIVE RStrip(_)
RStrip(s) ==
    IF Len(s) > 0 /\ s[Len(s)] = Slash THEN RStrip(SubSeq(s, 1, Len(s) - 1))
    ELSE s

\* s.startswith(prefix)
StartsWith(s, prefix) ==
    /\ Len(prefix) <= Len(s)
    /\ SubSeq(s, 1, Len(prefix)) = prefix

normalize_endpoint(path) ==
    LET stripped == RStrip(path)
        parts    == Split(stripped)
    IN  IF Len(parts) >= 4 THEN Join(SubSeq(parts, 1, 4)) ELSE stripped

is_normalized_endpoint(path) == Len(Split(RStrip(path))) = 4

\* ------------------------------------------------------------ input values

\* "/api/v1/individuals"
BasePath == Join(<<Empty, W_api, W_v1, W_individuals>>)

\* "/api/v1/individuals/with-user"
SpecificPath == Join(<<Empty, W_api, W_v1, W_individuals, W_with_user>>)

\* "/users": a path outside the /api/ prefix
PlainPath == Join(<<Empty, W_users>>)

\* "/api/"
ApiPrefix == Join(<<Empty, W_api, Empty>>)

Users == {1, 2}

\* A user id no row of the users table has.
UnknownUser == Cardinality(Users) + 1

VALID_METHODS == {"GET", "POST", "PUT", "DELETE", "PATCH"}

\* Methods of the requests and resolver calls of the model.
Methods == {"GET", "POST"}

\* A verb outside VALID_METHODS.
BadMethod == "TRACE"

Endpoints == {BasePath, SpecificPath}

\* (endpoint, method) pairs submitted to create_permission: the entity root,
\* a sub-route, and two pairs the validation rejects.
GrantKeys == {<<BasePath, "GET">>, <<SpecificPath, "GET">>}

SubmittedKeys == GrantKeys \cup {<<PlainPath, "GET">>, <<BasePath, BadMethod>>}

\* The segments the paths are built from: the empty segment (a leading,
\* doubled or trailing slash) and two names.
Segments == {Empty, <<"a">>, <<"b">>}

RECURSIVE SegmentSeqs(_)
SegmentSeqs(n) ==
    IF n = 0 THEN {<< >>}
    ELSE { Append(s, x) : s \in SegmentSeqs(n - 1), x \in Segments }

\* "/api/v1/individuals/", "/api/v1/individuals/1" and
\* "/api/v1/individuals/1/with-user"
EntityPaths ==
    { BasePath, Join(<<Empty, W_api, W_v1, W_individuals, Empty>>),
      Join(<<Empty, W_api, W_v1, W_individuals, <<"1">>>>),
      Join(<<Empty, W_api, W_v1, W_individuals, <<"1">>, W_with_user>>),
      SpecificPath }

\* Every path of one to MaxSegments segments, and the routes of one entity.
PathInputs ==
    { Join(s) : s \in UNION { SegmentSeqs(n) : n \in 1..MaxSegments } }
    \cup EntityPaths

\* ------------------------------------------------------- user_permissions

\* A row of the user_permissions table; its id is its position in perms.
UserPermission(u, e, m, a) ==
    [user_id |-> u, endpoint |-> e, method |-> m, allowed |-> a,
     is_active |-> TRUE, is_deleted |-> FALSE]

\* The value of an optional id that is absent (Python None, SQL NULL); it
\* differs from every id a client can send, the id 0 included.
None == -1

\* Python truthiness of an optional id: None and 0 are both falsy.
Truthy(v) == v # None /\ v # 0

\* The result of the last operation, with the arguments it was called with.
Blank ==
    [op |-> "none", user_id |-> 0, endpoint |-> Empty, method |-> "",
     allowed |-> FALSE, id |-> 0, grants |-> << >>, outcome |-> "",
     result |-> FALSE, auth |-> "", status |-> 0, forwarded |-> FALSE,
     checked |-> FALSE, asked |-> Empty, ids |-> {},
     parent_id |-> None, detail |-> "", errors |-> {},
     scope |-> [user_id |-> 0, scope_type |-> "", business_group_id |-> None,
                company_id |-> None, branch_id |-> None, department_id |-> None],
     change |-> [business_group_id |-> [set |-> FALSE, value |-> None],
                 company_id |-> [set |-> FALSE, value |-> None],
                 branch_id |-> [set |-> FALSE, value |-> None],
                 department_id |-> [set |-> FALSE, value |-> None],
                 is_active |-> [set |-> FALSE, value |-> FALSE]]]

\* uq_user_endpoint_method: the storage constraint covers every row of the
\* table, soft-deleted rows included.
UniqueConstraintHolds(rows) ==
    \A i, j \in DOMAIN rows :
        (/\ rows[i].user_id = rows[j].user_id
         /\ rows[i].endpoint = rows[j].endpoint
         /\ rows[i].method = rows[j].method) => i = j

Min(S) == CHOOSE x \in S : \A y \in S : x <= y

\* get_permission without the filters on is_deleted and is_active.
get_permission_AnyRow(rows, u, e, m) ==
    LET hits == {i \in DOMAIN rows :
                    /\ rows[i].user_id = u
                    /\ rows[i].endpoint = e
                    /\ rows[i].method = m}
    IN  IF hits = {} THEN 0 ELSE Min(hits)

\* UserPermissionRepository.get_permission (active_only=True): the id of the
\* first matching row, 0 for None.
get_permission(rows, u, e, m) ==
    LET hits == {i \in DOMAIN rows :
                    /\ rows[i].user_id = u
                    /\ rows[i].endpoint = e
                    /\ rows[i].method = m
                    /\ rows[i].is_deleted = FALSE
                    /\ rows[i].is_active = TRUE}
    IN  IF hits = {} THEN 0 ELSE Min(hits)

\* permission_exists that never finds a row.
permission_exists_Never(rows, u, e, m) == FALSE

\* UserPermissionRepository.permission_exists (no exclude_id).
permission_exists(rows, u, e, m) ==
    \E i \in DOMAIN rows :
        /\ rows[i].user_id = u
        /\ rows[i].endpoint = e
        /\ rows[i].method = m
        /\ rows[i].is_deleted = FALSE

\* has_permission that consults the base grant before the specific one.
has_permission_BaseFirst(rows, u, e, m) ==
    LET base == get_permission(rows, u, normalize_endpoint(e), m)
        specific == get_permission(rows, u, e, m)
    IN  IF base # 0 THEN rows[base].allowed
        ELSE IF specific # 0 THEN rows[specific].allowed
        ELSE FALSE

\* has_permission that allows when no grant is found.
has_permission_DefaultAllow(rows, u, e, m) ==
    LET specific == get_permission(rows, u, e, m)
        normalized_endpoint == normalize_endpoint(e)
        base == IF normalized_endpoint # e
                THEN get_permission(rows, u, normalized_endpoint, m) ELSE 0
    IN  IF specific # 0 THEN rows[specific].allowed
        ELSE IF base # 0 THEN rows[base].allowed
        ELSE TRUE

\* has_permission without the base lookup.
has_permission_NoFallback(rows, u, e, m) ==
    LET specific == get_permission(rows, u, e, m)
    IN  IF specific # 0 THEN rows[specific].allowed ELSE FALSE

\* app.core.permissions.has_permission
has_permission(rows, u, e, m) ==
    LET specific == get_permission(rows, u, e, m)
        normalized_endpoint == normalize_endpoint(e)
        base == IF normalized_endpoint # e
                THEN get_permission(rows, u, normalized_endpoint, m) ELSE 0
    IN  IF specific # 0 THEN rows[specific].allowed
        ELSE IF base # 0 THEN rows[base].allowed
        ELSE FALSE

\* ------------------------------------------- BaseRepository (generic CRUD)

\* BaseRepository.get_by_id: the row with this id, soft-deleted rows hidden.
get_by_id(rows, id) == id \in DOMAIN rows /\ rows[id].is_deleted = FALSE

\* BaseRepository.update: sets the given column of one row and commits.
update_allowed(rows, id, a) == [rows EXCEPT ![id].allowed = a]

\* BaseRepository.soft_delete: the row stays in the table, flagged.
soft_delete(rows, id) ==
    [rows EXCEPT ![id].is_deleted = TRUE, ![id].is_active = FALSE]

\* BaseRepository.create: INSERT and COMMIT; TRUE when the table accepts the
\* row (an IntegrityError otherwise, and nothing is stored).
create_accepted(rows, row) == UniqueConstraintHolds(Append(rows, row))

\* --------------------------------------------------- UserPermissionService

\* _validate_permission_data, and the structure check of the bulk update:
\* the endpoint starts with /api/ and the method is a recognised verb.
ValidEntry(e, m) == StartsWith(e, ApiPrefix) /\ m \in VALID_METHODS

\* bulk_delete_by_user without the filter on user_id.
bulk_delete_by_user_EveryUser(rows, u) ==
    [i \in DOMAIN rows |->
        IF rows[i].is_deleted = FALSE
        THEN [rows[i] EXCEPT !.is_deleted = TRUE, !.is_active = FALSE]
        ELSE rows[i]]

\* UserPermissionRepository.bulk_delete_by_user: soft-deletes every
\* non-deleted row of the user and COMMITs.
bulk_delete_by_user(rows, u) ==
    [i \in DOMAIN rows |->
        IF rows[i].user_id = u /\ rows[i].is_deleted = FALSE
        THEN [rows[i] EXCEPT !.is_deleted = TRUE, !.is_active = FALSE]
        ELSE rows[i]]

\* The rows bulk_create adds to the session, in the order of the input map.
NewRows(u, grants) ==
    [k \in 1..Len(grants) |->
        UserPermission(u, grants[k][1], grants[k][2], grants[k][3])]

\* UserPermissionRepository.bulk_create: adds every row, then one COMMIT.
\* TRUE when the commit succeeds; a failed commit stores none of the rows.
bulk_create_accepted(rows, u, grants) ==
    UniqueConstraintHolds(rows \o NewRows(u, grants))

\* Permission maps submitted to the bulk update, as the sequence of
\* (endpoint, method, allowed) entries the nested dict is iterated in.
BulkMaps ==
    { << >>,
      << <<BasePath, "GET", TRUE>> >>,
      << <<SpecificPath, "GET", FALSE>> >>,
      << <<BasePath, "GET", TRUE>>, <<SpecificPath, "GET", FALSE>> >>,
      << <<BasePath, "GET", FALSE>>, <<SpecificPath, "GET", TRUE>> >>,
      << <<BasePath, "GET", TRUE>>, <<PlainPath, "GET", TRUE>> >>,
      << <<BasePath, BadMethod, TRUE>> >> }

\* isinstance(allowed, bool) for the value of an entry of the map. An entry
\* whose JSON value is not a boolean carries a fourth component, the type
\* of the value; its third component is never stored.
isinstance_bool(entry) == Len(entry) = 3

\* A map entry for (e, m) whose value is a string.
StringValued(e, m) == <<e, m, FALSE, "str">>

\* The method name as a string of characters, as an f-string writes it.
MethodChars(m) ==
    CASE m = "GET" -> <<"G", "E", "T">>
      [] m = "POST" -> <<"P", "O", "S", "T">>
      [] m = "PUT" -> <<"P", "U", "T">>
      [] m = "DELETE" -> <<"D", "E", "L", "E", "T", "E">>
      [] m = "PATCH" -> <<"P", "A", "T", "C", "H">>
      [] m = "TRACE" -> <<"T", "R", "A", "C", "E">>

\* f"{endpoint}.{method}"
error_key(e, m) == e \o <<".">> \o MethodChars(m)

\* errors[key] = message: a dict holds one message per key, the last one
\* assigned. The dict is the set of its (key, message) items.
set_item(errors, key, message) ==
    {item \in errors : item[1] # key} \cup {<<key, message>>}

\* The validation loop of bulk_update_user_permissions from entry k on: the
\* errors dict after every entry has been looked at.
RECURSIVE collect_errors(_, _, _)
collect_errors(grants, k, errors) ==
    IF k > Len(grants) THEN errors
    ELSE LET endpoint == grants[k][1]
             method   == grants[k][2]
             e1 == IF ~StartsWith(endpoint, ApiPrefix)
                   THEN set_item(errors, endpoint, "prefix") ELSE errors
             e2 == IF method \notin VALID_METHODS
                   THEN set_item(e1, error_key(endpoint, method), "method") ELSE e1
             e3 == IF ~isinstance_bool(grants[k])
                   THEN set_item(e2, error_key(endpoint, method), "boolean") ELSE e2
         IN  collect_errors(grants, k + 1, e3)

\* The errors dict bulk_update_user_permissions builds for a map.
bulk_errors(grants) == collect_errors(grants, 1, {})

\* `if errors:` is false.
ValidMap(grants) == bulk_errors(grants) = {}

\* UserPermissionService.create_permission
CreatePermission(u, e, m, a) ==
    LET call == [Blank EXCEPT !.op = "create_permission", !.user_id = u,
                              !.endpoint = e, !.method = m, !.allowed = a]
        row  == UserPermission(u, e, m, a)
    IN  /\ UNCHANGED <<scopes, role, departments, employees, requests>>
        /\ IF ~ValidEntry(e, m)
           THEN /\ perms' = perms
                /\ last' = [call EXCEPT !.outcome = "validation_error"]
           ELSE IF permission_exists(perms, u, e, m)
           THEN /\ perms' = perms
                /\ last' = [call EXCEPT !.outcome = "already_exists"]
           ELSE IF ~create_accepted(perms, row)
           THEN /\ perms' = perms
                /\ last' = [call EXCEPT !.outcome = "error"]
           ELSE /\ Len(perms) < MaxRows
                /\ perms' = Append(perms, row)
                /\ last' = [call EXCEPT !.outcome = "ok", !.id = Len(perms) + 1]

\* UserPermissionService.update_permission (the request body carries only
\* the field allowed)
UpdatePermission(id, a) ==
    LET call == [Blank EXCEPT !.op = "update_permission", !.id = id,
                              !.allowed = a]
    IN  /\ UNCHANGED <<scopes, role, departments, employees, requests>>
        /\ IF ~get_by_id(perms, id)
           THEN /\ perms' = perms
                /\ last' = [call EXCEPT !.outcome = "not_found"]
           ELSE /\ perms' = update_allowed(perms, id, a)
                /\ last' = [call EXCEPT !.outcome = "ok"]

\* UserPermissionService.delete_permission
DeletePermission(id) ==
    LET call == [Blank EXCEPT !.op = "delete_permission", !.id = id]
    IN  /\ UNCHANGED <<scopes, role, departments, employees, requests>>
        /\ IF ~get_by_id(perms, id)
           THEN /\ perms' = perms
                /\ last' = [call EXCEPT !.outcome = "not_found"]
           ELSE /\ perms' = soft_delete(perms, id)
                /\ last' = [call EXCEPT !.outcome = "ok"]

\* UserPermissionService.bulk_update_user_permissions
BulkUpdate(u, grants) ==
    LET call    == [Blank EXCEPT !.op = "bulk_update", !.user_id = u,
                                 !.grants = grants]
        cleared == bulk_delete_by_user(perms, u)
    IN  /\ UNCHANGED <<scopes, role, departments, employees, requests>>
        /\ IF ~ValidMap(grants)
           THEN /\ perms' = perms
                /\ last' = [call EXCEPT !.outcome = "validation_error",
                                        !.errors = bulk_errors(grants)]
           ELSE IF Len(grants) > 0 /\ ~bulk_create_accepted(cleared, u, grants)
           THEN \* the commit of bulk_create fails; db.rollback() undoes only
                \* what was not committed yet
                /\ perms' = cleared
                /\ last' = [call EXCEPT !.outcome = "business_rule_error"]
           ELSE /\ Len(perms) + Len(grants) <= MaxRows
                /\ perms' = cleared \o NewRows(u, grants)
                /\ last' = [call EXCEPT !.outcome = "ok"]

\* A call of has_permission, as any caller of the resolver makes it.
HasPermission(u, e, m) ==
    /\ UNCHANGED <<perms, scopes, role, departments, employees, requests>>
    /\ last' = [Blank EXCEPT !.op = "has_permission", !.user_id = u,
                             !.endpoint = e, !.method = m,
                             !.result = has_permission(perms, u, e, m)]

\* A call of normalize_endpoint, on a path received or on the key an earlier
\* call returned.
NormalizeEndpoint ==
    LET path == IF last.op = "path" THEN last.endpoint ELSE last.asked
    IN  /\ last.op \in {"path", "normalize_endpoint"}
        /\ last' = [Blank EXCEPT !.op = "normalize_endpoint", !.endpoint = path,
                                 !.asked = normalize_endpoint(path)]
        /\ UNCHANGED <<perms, scopes, role, departments, employees, requests>>

\* What a query on the session meets: a database that answers, or one that
\* fails (connection lost, statement timeout) so that query.first() raises.
StoreStates == {"up", "down"}

\* has_permission has no exception handler around its repository calls: an
\* error raised by get_permission leaves the function as an exception.
has_permission_raises(store) == store = "down"

\* A call of has_permission, with the state of the store it meets.
ResolveOnStore(store, u, e, m) ==
    LET call == [Blank EXCEPT !.op = "has_permission", !.user_id = u,
                              !.endpoint = e, !.method = m, !.detail = store]
    IN  /\ UNCHANGED <<perms, scopes, role, departments, employees, requests>>
        /\ last' = IF has_permission_raises(store)
                   THEN [call EXCEPT !.outcome = "raised"]
                   ELSE [call EXCEPT !.outcome = "returned",
                                     !.result = has_permission(perms, u, e, m)]

\* ----------------------------------------------------- PermissionMiddleware

\* PermissionMiddleware.excluded_paths
excluded_paths ==
    { Join(<<Empty, W_token>>), Join(<<Empty, W_docs>>),
      Join(<<Empty, W_redoc>>), Join(<<Empty, W_openapi_json>>),
      Join(<<Empty, W_health>>) }

\* PermissionMiddleware._is_excluded_path
_is_excluded_path(path) == \E excluded \in excluded_paths : StartsWith(path, excluded)

TokenPath == Join(<<Empty, W_token>>)

\* "/tokens": it only begins like the login path
TokensPath == Join(<<Empty, W_tokens>>)

\* What the Authorization header of a request amounts to: no header, a header
\* of another scheme, a Bearer token verify_token rejects, a Bearer token
\* whose payload has no user_id, a Bearer token of a user.
AuthKinds == {"none", "other_scheme", "bearer_invalid", "bearer_no_user", "bearer"}

\* The requests the model sends, as (path, method, auth, user_id of the
\* token or 0): Bearer requests of user 1 to the entity root, a sub-route,
\* the login path, a path that only begins like the login path and a path
\* outside /api/; a Bearer request of an unknown user; and requests without
\* a usable token to the entity root and the login path.
Requests ==
    { <<p, m, "bearer", 1>> :
        p \in {BasePath, SpecificPath, TokenPath, TokensPath, PlainPath},
        m \in Methods }
    \cup { <<SpecificPath, "GET", "bearer", UnknownUser>> }
    \cup { <<BasePath, "GET", a, 0>> : a \in AuthKinds \ {"bearer"} }
    \cup { <<TokenPath, "GET", "none", 0>> }

\* The endpoint dispatch hands to has_permission.
dispatch_endpoint(path) == normalize_endpoint(path)

\* dispatch that forwards a denied request.
dispatch_denied_Forward(allowed) == FALSE

\* dispatch answers 403 when has_permission returned false.
dispatch_denied(allowed) == ~allowed

\* PermissionMiddleware.dispatch
Dispatch(path, method, auth, u) ==
    LET call     == [Blank EXCEPT !.op = "dispatch", !.endpoint = path,
                                  !.method = method, !.auth = auth,
                                  !.user_id = u]
        endpoint == dispatch_endpoint(path)
        allowed  == has_permission(perms, u, endpoint, method)
    IN  /\ UNCHANGED <<perms, scopes, role, departments, employees, requests>>
        /\ last' =
             IF _is_excluded_path(path)
             THEN [call EXCEPT !.forwarded = TRUE]
             ELSE IF auth \in {"none", "other_scheme"}
             THEN [call EXCEPT !.forwarded = TRUE]
             ELSE IF auth \in {"bearer_invalid", "bearer_no_user"}
             THEN [call EXCEPT !.status = 401]
             ELSE IF dispatch_denied(allowed)
             THEN [call EXCEPT !.checked = TRUE, !.asked = endpoint,
                               !.result = allowed, !.status = 403]
             ELSE [call EXCEPT !.checked = TRUE, !.asked = endpoint,
                               !.result = allowed, !.forwarded = TRUE]

\* ------------------------------------------------------------- user_scopes

ScopeTypes == {"GLOBAL", "BUSINESS_GROUP", "COMPANY", "BRANCH", "DEPARTMENT"}

\* The body of a create request (UserScopeCreate)
ScopeData(u, t, bg, co, br, de) ==
    [user_id |-> u, scope_type |-> t, business_group_id |-> bg,
     company_id |-> co, branch_id |-> br, department_id |-> de]

\* A row of the user_scopes table; its id is its position in scopes.
UserScope(data) ==
    [user_id |-> data.user_id, scope_type |-> data.scope_type,
     business_group_id |-> data.business_group_id,
     company_id |-> data.company_id, branch_id |-> data.branch_id,
     department_id |-> data.department_id,
     is_active |-> TRUE, is_deleted |-> FALSE]

\* _validate_user_scope_data without the rule for the roles 4 and 5.
_validate_user_scope_data_NoRoleBan(data, user_role) ==
    LET scope_type == data.scope_type
        bg == Truthy(data.business_group_id)
        co == Truthy(data.company_id)
        br == Truthy(data.branch_id)
        de == Truthy(data.department_id)
        role_error ==
            \/ user_role = 3 /\ scope_type # "DEPARTMENT"
            \/ user_role = 2 /\ scope_type \notin {"BUSINESS_GROUP", "COMPANY", "BRANCH"}
        shape_error ==
            CASE scope_type = "GLOBAL" -> bg \/ co \/ br \/ de
              [] scope_type = "BUSINESS_GROUP" -> ~bg \/ co \/ br \/ de
              [] scope_type = "COMPANY" -> ~co \/ bg \/ br \/ de
              [] scope_type = "BRANCH" -> ~br \/ bg \/ co \/ de
              [] scope_type = "DEPARTMENT" -> ~de \/ bg \/ co \/ br
              [] OTHER -> FALSE
    IN  IF data.user_id = None \/ scope_type = ""
        THEN "validation_error"
        ELSE IF role_error \/ shape_error
        THEN "validation_error"
        ELSE "ok"

\* UserScopeService._validate_user_scope_data: "ok", "validation_error" or
\* "business_rule_error".
_validate_user_scope_data(data, user_role) ==
    LET scope_type == data.scope_type
        bg == Truthy(data.business_group_id)
        co == Truthy(data.company_id)
        br == Truthy(data.branch_id)
        de == Truthy(data.department_id)
        role_error ==
            \/ user_role = 3 /\ scope_type # "DEPARTMENT"
            \/ user_role = 2 /\ scope_type \notin {"BUSINESS_GROUP", "COMPANY", "BRANCH"}
        shape_error ==
            CASE scope_type = "GLOBAL" -> bg \/ co \/ br \/ de
              [] scope_type = "BUSINESS_GROUP" -> ~bg \/ co \/ br \/ de
              [] scope_type = "COMPANY" -> ~co \/ bg \/ br \/ de
              [] scope_type = "BRANCH" -> ~br \/ bg \/ co \/ de
              [] scope_type = "DEPARTMENT" -> ~de \/ bg \/ co \/ br
              [] OTHER -> FALSE
    IN  IF data.user_id = None \/ scope_type = ""
        THEN "validation_error"
        ELSE IF user_role = 4 \/ user_role = 5
        THEN "business_rule_error"
        ELSE IF role_error \/ shape_error
        THEN "validation_error"
        ELSE "ok"

\* The entity_id create_user_scope derives from scope_type.
entity_id_of(data) ==
    CASE data.scope_type = "BUSINESS_GROUP" -> data.business_group_id
      [] data.scope_type = "COMPANY" -> data.company_id
      [] data.scope_type = "BRANCH" -> data.branch_id
      [] data.scope_type = "DEPARTMENT" -> data.department_id
      [] OTHER -> None

\* UserScopeRepository.scope_exists (no exclude_id)
scope_exists(rows, u, scope_type, entity_id) ==
    \E i \in DOMAIN rows :
        /\ rows[i].user_id = u
        /\ rows[i].scope_type = scope_type
        /\ rows[i].is_deleted = FALSE
        /\ CASE scope_type = "BUSINESS_GROUP" -> rows[i].business_group_id = entity_id
             [] scope_type = "COMPANY" -> rows[i].company_id = entity_id
             [] scope_type = "BRANCH" -> rows[i].branch_id = entity_id
             [] scope_type = "DEPARTMENT" -> rows[i].department_id = entity_id
             [] OTHER -> TRUE

\* A field of the body of an update request (UserScopeUpdate dumped with
\* exclude_unset): sent or not, and the value sent.
Unsent == [set |-> FALSE, value |-> None]

Sent(v) == [set |-> TRUE, value |-> v]

NoActive == [set |-> FALSE, value |-> FALSE]

ScopeUpdate(bg, co, br, de, act) ==
    [business_group_id |-> bg, company_id |-> co, branch_id |-> br,
     department_id |-> de, is_active |-> act]

\* BaseRepository.update on user_scopes: writes the fields that were sent.
update_scope(rows, id, data) ==
    LET new(f, old) == IF data[f].set THEN data[f].value ELSE old
    IN  [rows EXCEPT ![id] =
            [@ EXCEPT !.business_group_id = new("business_group_id", @),
                      !.company_id = new("company_id", @),
                      !.branch_id = new("branch_id", @),
                      !.department_id = new("department_id", @),
                      !.is_active = new("is_active", @)]]

\* get_user_scopes that forgets the is_active filter.
get_user_scopes_IgnoreActive(rows, u) ==
    {i \in DOMAIN rows : rows[i].user_id = u /\ rows[i].is_deleted = FALSE}

\* app.core.permissions.get_user_scopes (active_only=True): the ids of the rows
get_user_scopes(rows, u) ==
    {i \in DOMAIN rows :
        /\ rows[i].user_id = u
        /\ rows[i].is_deleted = FALSE
        /\ rows[i].is_active = TRUE}

\* app.core.permissions.user_has_global_access
user_has_global_access(rows, roles, u) ==
    IF u \notin DOMAIN roles \/ roles[u] # 1
    THEN FALSE
    ELSE Cardinality(get_user_scopes(rows, u)) = 0

\* The business_group_id values get_accessible_business_group_ids collects
\* when the user has no global access.
business_group_ids(rows, u) ==
    { rows[i].business_group_id :
        i \in {k \in DOMAIN rows :
                 /\ rows[k].user_id = u
                 /\ rows[k].scope_type = "BUSINESS_GROUP"
                 /\ Truthy(rows[k].business_group_id)
                 /\ rows[k].is_active = TRUE
                 /\ rows[k].is_deleted = FALSE} }

\* The scopes submitted to create_user_scope: three well-formed ones and two
\* malformed ones (COMPANY with branch_id instead of company_id,
\* BUSINESS_GROUP without its id).
ScopeInputs(u) ==
    { ScopeData(u, "GLOBAL", None, None, None, None),
      ScopeData(u, "BUSINESS_GROUP", 1, None, None, None),
      ScopeData(u, "DEPARTMENT", None, None, None, 1),
      ScopeData(u, "COMPANY", None, None, 1, None),
      ScopeData(u, "BUSINESS_GROUP", None, None, None, None) }

\* The bodies submitted to update_user_scope: deactivate, reactivate, move a
\* scope to another business group.
UpdateInputs ==
    { ScopeUpdate(Unsent, Unsent, Unsent, Unsent, [set |-> TRUE, value |-> FALSE]),
      ScopeUpdate(Unsent, Unsent, Unsent, Unsent, [set |-> TRUE, value |-> TRUE]),
      ScopeUpdate(Sent(2), Unsent, Unsent, Unsent, NoActive) }

\* POST /api/v1/user-scopes: the router looks the target user up, then
\* UserScopeService.create_user_scope
CreateUserScope(data) ==
    LET call    == [Blank EXCEPT !.op = "create_user_scope",
                                 !.user_id = data.user_id, !.scope = data]
        verdict == _validate_user_scope_data(data, role[data.user_id])
    IN  /\ UNCHANGED <<perms, role, departments, employees, requests>>
        /\ IF data.user_id \notin DOMAIN role
           THEN /\ scopes' = scopes
                /\ last' = [call EXCEPT !.outcome = "not_found"]
           ELSE IF verdict # "ok"
           THEN /\ scopes' = scopes
                /\ last' = [call EXCEPT !.outcome = verdict]
           ELSE IF scope_exists(scopes, data.user_id, data.scope_type,
                                entity_id_of(data))
           THEN /\ scopes' = scopes
                /\ last' = [call EXCEPT !.outcome = "already_exists"]
           ELSE /\ Len(scopes) < MaxScopes
                /\ scopes' = Append(scopes, UserScope(data))
                /\ last' = [call EXCEPT !.outcome = "ok", !.id = Len(scopes) + 1]

\* UserScopeService.update_user_scope
UpdateUserScope(id, data) ==
    LET call == [Blank EXCEPT !.op = "update_user_scope", !.id = id,
                              !.change = data]
    IN  /\ UNCHANGED <<perms, role, departments, employees, requests>>
        /\ IF ~get_by_id(scopes, id)
           THEN /\ scopes' = scopes
                /\ last' = [call EXCEPT !.outcome = "not_found"]
           ELSE /\ scopes' = update_scope(scopes, id, data)
                /\ last' = [call EXCEPT !.outcome = "ok"]

\* UserScopeService.delete_user_scope
DeleteUserScope(id) ==
    LET call == [Blank EXCEPT !.op = "delete_user_scope", !.id = id]
    IN  /\ UNCHANGED <<perms, role, departments, employees, requests>>
        /\ IF ~get_by_id(scopes, id)
           THEN /\ scopes' = scopes
                /\ last' = [call EXCEPT !.outcome = "not_found"]
           ELSE /\ scopes' = soft_delete(scopes, id)
                /\ last' = [call EXCEPT !.outcome = "ok"]

\* A call of user_has_global_access
UserHasGlobalAccess(u) ==
    /\ UNCHANGED <<perms, scopes, role, departments, employees, requests>>
    /\ last' = [Blank EXCEPT !.op = "user_has_global_access", !.user_id = u,
                             !.result = user_has_global_access(scopes, role, u)]

\* A call of get_accessible_business_group_ids: result is TRUE for the
\* answer None ("all"), otherwise ids holds the list.
GetAccessibleBusinessGroupIds(u) ==
    /\ UNCHANGED <<perms, scopes, role, departments, employees, requests>>
    /\ last' =
         IF user_has_global_access(scopes, role, u)
         THEN [Blank EXCEPT !.op = "get_accessible_business_group_ids",
                            !.user_id = u, !.result = TRUE]
         ELSE [Blank EXCEPT !.op = "get_accessible_business_group_ids",
                            !.user_id = u, !.result = FALSE,
                            !.ids = business_group_ids(scopes, u)]

\* -------------------------------------------------------------- hierarchies

\* BaseRepository.get_by_id on departments and employees: a row with that id
\* exists (no department or employee is deleted in the model).
get_by_id_row(rows, id) == id \in DOMAIN rows

\* departments.services.department_service.MAX_HIERARCHY_DEPTH
MAX_HIERARCHY_DEPTH == 10

\* EmployeeService.MAX_HIERARCHY_DEPTH
Employee_MAX_HIERARCHY_DEPTH == 10

\* A row of the departments table; its id is its position in departments.
Department(parent_id) == [parent_id |-> parent_id]

\* CheckConstraint('id != parent_id', name='check_no_self_parent')
check_no_self_parent(rows) == \A i \in DOMAIN rows : rows[i].parent_id # i

\* A row of the employees table; its id is its position in employees.
Employee(supervisor_id) == [supervisor_id |-> supervisor_id]

\* The walk with the depth test one level too early (>= instead of >).
RECURSIVE circular_reference_walk_StrictDepth(_, _, _, _, _)
circular_reference_walk_StrictDepth(rows, department_id, current_id, visited, depth) ==
    IF current_id = None
    THEN "ok"
    ELSE IF current_id \in visited
    THEN "circular_reference"
    ELSE IF Truthy(department_id) /\ current_id = department_id
    THEN "own_parent"
    ELSE IF depth + 1 >= MAX_HIERARCHY_DEPTH
    THEN "depth_exceeded"
    ELSE IF ~get_by_id_row(rows, current_id)
    THEN "ok"
    ELSE circular_reference_walk_StrictDepth(rows, department_id,
                                             rows[current_id].parent_id,
                                             visited \cup {current_id}, depth + 1)

\* The while loop of DepartmentService._validate_no_circular_reference, from
\* the state (current_id, visited, depth): "ok" when it ends, otherwise the
\* BusinessRuleError it raises.
RECURSIVE circular_reference_walk(_, _, _, _, _)
circular_reference_walk(rows, department_id, current_id, visited, depth) ==
    IF current_id = None
    THEN "ok"
    ELSE IF current_id \in visited
    THEN "circular_reference"
    ELSE IF Truthy(department_id) /\ current_id = department_id
    THEN "own_parent"
    ELSE IF depth + 1 > MAX_HIERARCHY_DEPTH
    THEN "depth_exceeded"
    ELSE IF ~get_by_id_row(rows, current_id)
    THEN "ok"
    ELSE circular_reference_walk(rows, department_id, rows[current_id].parent_id,
                                 visited \cup {current_id}, depth + 1)

\* The guard without the test for the department itself in the chain.
_validate_no_circular_reference_NoSelfTest(rows, department_id, parent_id) ==
    circular_reference_walk(rows, None, parent_id, {}, 0)

\* DepartmentService._validate_no_circular_reference
_validate_no_circular_reference(rows, department_id, parent_id) ==
    circular_reference_walk(rows, department_id, parent_id, {}, 0)

\* The while loop of EmployeeService._validate_no_circular_supervisor
RECURSIVE circular_supervisor_walk(_, _, _, _, _)
circular_supervisor_walk(rows, employee_id, current_id, visited, depth) ==
    IF current_id = None
    THEN "ok"
    ELSE IF current_id \in visited
    THEN "circular_reference"
    ELSE IF current_id = employee_id
    THEN "in_own_chain"
    ELSE IF depth + 1 > Employee_MAX_HIERARCHY_DEPTH
    THEN "depth_exceeded"
    ELSE IF ~get_by_id_row(rows, current_id)
    THEN "ok"
    ELSE circular_supervisor_walk(rows, employee_id, rows[current_id].supervisor_id,
                                  visited \cup {current_id}, depth + 1)

\* The guard with the test for direct self-supervision only, without the walk.
_validate_no_circular_supervisor_SelfOnly(rows, employee_id, supervisor_id) ==
    IF employee_id # None /\ employee_id = supervisor_id
    THEN "own_supervisor"
    ELSE "ok"

\* EmployeeService._validate_no_circular_supervisor
_validate_no_circular_supervisor(rows, employee_id, supervisor_id) ==
    IF employee_id = None
    THEN "ok"
    ELSE IF employee_id = supervisor_id
    THEN "own_supervisor"
    ELSE circular_supervisor_walk(rows, employee_id, supervisor_id, {}, 0)

\* The nodes the while loop of _validate_no_circular_reference looks at, one
\* per iteration, from the state (current_id, visited, depth) until the loop
\* ends or raises; walked without the depth test.
RECURSIVE circular_reference_trace_NoDepthTest(_, _, _, _, _)
circular_reference_trace_NoDepthTest(rows, department_id, current_id, visited, depth) ==
    IF current_id = None
    THEN << >>
    ELSE IF \/ current_id \in visited
            \/ Truthy(department_id) /\ current_id = department_id
            \/ ~get_by_id_row(rows, current_id)
    THEN <<current_id>>
    ELSE <<current_id>> \o
         circular_reference_trace_NoDepthTest(rows, department_id,
                                              rows[current_id].parent_id,
                                              visited \cup {current_id}, depth + 1)

\* The nodes the while loop of _validate_no_circular_reference looks at, one
\* per iteration, from the state (current_id, visited, depth) until the loop
\* ends or raises.
RECURSIVE circular_reference_trace(_, _, _, _, _)
circular_reference_trace(rows, department_id, current_id, visited, depth) ==
    IF current_id = None
    THEN << >>
    ELSE IF \/ current_id \in visited
            \/ Truthy(department_id) /\ current_id = department_id
            \/ depth + 1 > MAX_HIERARCHY_DEPTH
            \/ ~get_by_id_row(rows, current_id)
    THEN <<current_id>>
    ELSE <<current_id>> \o
         circular_reference_trace(rows, department_id, rows[current_id].parent_id,
                                  visited \cup {current_id}, depth + 1)

\* The same for the while loop of _validate_no_circular_supervisor.
RECURSIVE circular_supervisor_trace(_, _, _, _, _)
circular_supervisor_trace(rows, employee_id, current_id, visited, depth) ==
    IF current_id = None
    THEN << >>
    ELSE IF \/ current_id \in visited
            \/ current_id = employee_id
            \/ depth + 1 > Employee_MAX_HIERARCHY_DEPTH
            \/ ~get_by_id_row(rows, current_id)
    THEN <<current_id>>
    ELSE <<current_id>> \o
         circular_supervisor_trace(rows, employee_id, rows[current_id].supervisor_id,
                                   visited \cup {current_id}, depth + 1)

\* The nodes a call of the department guard looks at.
department_guard_trace(rows, department_id, parent_id) ==
    circular_reference_trace(rows, department_id, parent_id, {}, 0)

\* The nodes a call of the employee guard looks at: none when it returns or
\* raises before its loop.
employee_guard_trace(rows, employee_id, supervisor_id) ==
    IF employee_id = None \/ employee_id = supervisor_id
    THEN << >>
    ELSE circular_supervisor_trace(rows, employee_id, supervisor_id, {}, 0)

\* DepartmentService.create_department, as far as parent_id is concerned: the
\* guard runs only when the parent has a parent itself.
CreateDepartment(parent_id) ==
    LET call  == [Blank EXCEPT !.op = "create_department", !.parent_id = parent_id]
        guard == IF Truthy(departments[parent_id].parent_id)
                 THEN _validate_no_circular_reference(departments, None, parent_id)
                 ELSE "ok"
    IN  /\ UNCHANGED <<perms, scopes, role, employees, requests>>
        /\ IF Truthy(parent_id) /\ ~get_by_id_row(departments, parent_id)
           THEN /\ departments' = departments
                /\ last' = [call EXCEPT !.outcome = "not_found"]
           ELSE IF Truthy(parent_id) /\ guard # "ok"
           THEN /\ departments' = departments
                /\ last' = [call EXCEPT !.outcome = "business_rule_error",
                                        !.detail = guard]
           ELSE /\ departments' = Append(departments, Department(parent_id))
                /\ last' = [call EXCEPT !.outcome = "ok",
                                        !.id = Len(departments) + 1]

\* DepartmentService.update_department with a body that carries parent_id
UpdateDepartment(department_id, parent_id) ==
    LET call  == [Blank EXCEPT !.op = "update_department", !.id = department_id,
                               !.parent_id = parent_id]
        guard == _validate_no_circular_reference(departments, department_id, parent_id)
    IN  /\ UNCHANGED <<perms, scopes, role, employees, requests>>
        /\ IF ~get_by_id_row(departments, department_id)
           THEN /\ departments' = departments
                /\ last' = [call EXCEPT !.outcome = "not_found"]
           ELSE IF parent_id # None /\ ~get_by_id_row(departments, parent_id)
           THEN /\ departments' = departments
                /\ last' = [call EXCEPT !.outcome = "not_found"]
           ELSE IF parent_id # None /\ guard # "ok"
           THEN /\ departments' = departments
                /\ last' = [call EXCEPT !.outcome = "business_rule_error",
                                        !.detail = guard]
           ELSE IF ~check_no_self_parent(
                       [departments EXCEPT ![department_id].parent_id = parent_id])
           THEN /\ departments' = departments
                /\ last' = [call EXCEPT !.outcome = "error"]
           ELSE /\ departments' = [departments EXCEPT ![department_id].parent_id = parent_id]
                /\ last' = [call EXCEPT !.outcome = "ok"]

\* EmployeeService.create_employee, as far as supervisor_id is concerned
CreateEmployee(supervisor_id) ==
    LET call  == [Blank EXCEPT !.op = "create_employee", !.parent_id = supervisor_id]
        guard == _validate_no_circular_supervisor(employees, None, supervisor_id)
    IN  /\ UNCHANGED <<perms, scopes, role, departments, requests>>
        /\ IF supervisor_id # None /\ ~get_by_id_row(employees, supervisor_id)
           THEN /\ employees' = employees
                /\ last' = [call EXCEPT !.outcome = "not_found"]
           ELSE IF supervisor_id # None /\ guard # "ok"
           THEN /\ employees' = employees
                /\ last' = [call EXCEPT !.outcome = "business_rule_error",
                                        !.detail = guard]
           ELSE /\ employees' = Append(employees, Employee(supervisor_id))
                /\ last' = [call EXCEPT !.outcome = "ok", !.id = Len(employees) + 1]

\* EmployeeService.update_employee with a body that carries supervisor_id
UpdateEmployee(employee_id, supervisor_id) ==
    LET call  == [Blank EXCEPT !.op = "update_employee", !.id = employee_id,
                               !.parent_id = supervisor_id]
        guard == _validate_no_circular_supervisor(employees, employee_id, supervisor_id)
    IN  /\ UNCHANGED <<perms, scopes, role, departments, requests>>
        /\ IF ~get_by_id_row(employees, employee_id)
           THEN /\ employees' = employees
                /\ last' = [call EXCEPT !.outcome = "not_found"]
           ELSE IF supervisor_id # None /\ ~get_by_id_row(employees, supervisor_id)
           THEN /\ employees' = employees
                /\ last' = [call EXCEPT !.outcome = "not_found"]
           ELSE IF supervisor_id # None /\ guard # "ok"
           THEN /\ employees' = employees
                /\ last' = [call EXCEPT !.outcome = "business_rule_error",
                                        !.detail = guard]
           ELSE /\ employees' = [employees EXCEPT ![employee_id].supervisor_id = supervisor_id]
                /\ last' = [call EXCEPT !.outcome = "ok"]

\* ------------------------------------------------------ concurrent requests

\* The sessions that serve requests at the same time, each with its own
\* SessionLocal().
Sessions == {1, 2}

\* A session between two requests.
Idle == [pc |-> "idle", id |-> 0, parent_id |-> None]

\* A session whose update request has passed the guard and not yet written.
Validated(id, parent_id) == [pc |-> "validated", id |-> id, parent_id |-> parent_id]

\* update_department up to the end of its validations: the lookups and the
\* walk of _validate_no_circular_reference read the committed table. A
\* rejected request ends here.
ValidateDepartmentUpdate(r, department_id, parent_id) ==
    /\ requests[r].pc = "idle"
    /\ get_by_id_row(departments, department_id)
    /\ parent_id # None => get_by_id_row(departments, parent_id)
    /\ parent_id # None =>
          _validate_no_circular_reference(departments, department_id, parent_id) = "ok"
    /\ requests' = [requests EXCEPT ![r] = Validated(department_id, parent_id)]
    /\ UNCHANGED <<perms, last, scopes, role, departments, employees>>

\* update_department from repository.update on: the link is written and
\* committed, unless check_no_self_parent refuses it.
WriteDepartmentUpdate(r) ==
    LET written == [departments EXCEPT ![requests[r].id].parent_id = requests[r].parent_id]
    IN  /\ requests[r].pc = "validated"
        /\ departments # << >>
        /\ departments' = IF check_no_self_parent(written) THEN written ELSE departments
        /\ requests' = [requests EXCEPT ![r] = Idle]
        /\ UNCHANGED <<perms, last, scopes, role, employees>>

\* update_employee up to the end of _validate_all
ValidateEmployeeUpdate(r, employee_id, supervisor_id) ==
    /\ requests[r].pc = "idle"
    /\ get_by_id_row(employees, employee_id)
    /\ supervisor_id # None => get_by_id_row(employees, supervisor_id)
    /\ supervisor_id # None =>
          _validate_no_circular_supervisor(employees, employee_id, supervisor_id) = "ok"
    /\ requests' = [requests EXCEPT ![r] = Validated(employee_id, supervisor_id)]
    /\ UNCHANGED <<perms, last, scopes, role, departments, employees>>

\* update_employee from the setattr loop to db.commit()
WriteEmployeeUpdate(r) ==
    /\ requests[r].pc = "validated"
    /\ employees # << >>
    /\ employees' = [employees EXCEPT ![requests[r].id].supervisor_id = requests[r].parent_id]
    /\ requests' = [requests EXCEPT ![r] = Idle]
    /\ UNCHANGED <<perms, last, scopes, role, departments>>

\* A session that serves no bulk update.
BulkIdle == [pc |-> "idle", user_id |-> 0, grants |-> << >>, outcome |-> ""]

\* bulk_update_user_permissions of a valid map, up to the COMMIT that ends
\* bulk_delete_by_user: the non-deleted rows of the user are soft-deleted
\* and the change is visible to every other session.
ClearBulkUpdate(r, u, grants) ==
    /\ requests[r].pc \in {"idle", "done"}
    /\ ValidMap(grants)
    /\ perms' = bulk_delete_by_user(perms, u)
    /\ requests' = [requests EXCEPT
                       ![r] = [pc |-> "cleared", user_id |-> u,
                               grants |-> grants, outcome |-> ""]]
    /\ UNCHANGED <<last, scopes, role, departments, employees>>

\* bulk_update_user_permissions from the flush on: bulk_create inserts the
\* rows of the map and COMMITs; a failed commit stores none of them and the
\* call ends with a BusinessRuleError.
InsertBulkUpdate(r) ==
    LET u      == requests[r].user_id
        grants == requests[r].grants
    IN  /\ requests[r].pc = "cleared"
        /\ UNCHANGED <<last, scopes, role, departments, employees>>
        /\ IF Len(grants) > 0 /\ ~bulk_create_accepted(perms, u, grants)
           THEN /\ perms' = perms
                /\ requests' = [requests EXCEPT
                                   ![r].pc = "done",
                                   ![r].outcome = "business_rule_error"]
           ELSE /\ Len(perms) + Len(grants) <= MaxRows
                /\ perms' = perms \o NewRows(u, grants)
                /\ requests' = [requests EXCEPT ![r].pc = "done",
                                                ![r].outcome = "ok"]

\* ----------------------------------------------------------- specification

Init ==
    /\ perms = << >>
    /\ last = Blank
    /\ scopes = << >>
    /\ departments = << >>
    /\ employees = << >>
    /\ requests = << >>
    /\ role = <<1, 2>>

\* The administrative operations on single grants.
GrantNext ==
    \/ \E u \in Users, k \in GrantKeys, a \in BOOLEAN :
          CreatePermission(u, k[1], k[2], a)
    \/ \E id \in 1..(MaxRows + 1), a \in BOOLEAN : UpdatePermission(id, a)
    \/ \E id \in 1..(MaxRows + 1) : DeletePermission(id)

Next ==
    \/ GrantNext
    \/ \E u \in Users, k \in SubmittedKeys \ GrantKeys, a \in BOOLEAN :
          CreatePermission(u, k[1], k[2], a)
    \/ \E u \in Users, grants \in BulkMaps : BulkUpdate(u, grants)
    \/ \E u \in Users \cup {UnknownUser}, e \in Endpoints, m \in Methods :
          HasPermission(u, e, m)

Spec == Init /\ [][Next]_vars

\* The middleware in front of the grant store.
NextMw ==
    \/ GrantNext
    \/ \E r \in Requests : Dispatch(r[1], r[2], r[3], r[4])

SpecMw == Init /\ [][NextMw]_vars

\* The roles of the two users: an Admin and a Manager, or a Supervisor and a
\* Collaborator.
RoleAssignments == { <<1, 2>>, <<3, 4>> }

InitScope ==
    /\ perms = << >>
    /\ last = Blank
    /\ scopes = << >>
    /\ departments = << >>
    /\ employees = << >>
    /\ requests = << >>
    /\ role \in RoleAssignments

\* The scope administration and the access predicates derived from it.
NextScope ==
    \/ \E u \in Users \cup {UnknownUser} :
          \E data \in ScopeInputs(u) : CreateUserScope(data)
    \/ \E id \in 1..(MaxScopes + 1), data \in UpdateInputs : UpdateUserScope(id, data)
    \/ \E id \in 1..(MaxScopes + 1) : DeleteUserScope(id)
    \/ \E u \in Users \cup {UnknownUser} : UserHasGlobalAccess(u)
    \/ \E u \in Users \cup {UnknownUser} : GetAccessibleBusinessGroupIds(u)

SpecScope == InitScope /\ [][NextScope]_vars

\* The ids a create request carries in each of its four optional id fields.
CreateIds == {None, 1}

\* Every create request for user u: each scope_type with each combination of
\* absent and present ids, and three requests that carry the id 0.
CreateInputs(u) ==
    { ScopeData(u, t, bg, co, br, de) :
        t \in ScopeTypes, bg \in CreateIds, co \in CreateIds,
        br \in CreateIds, de \in CreateIds }
    \cup { ScopeData(u, "GLOBAL", None, 0, None, None),
           ScopeData(u, "DEPARTMENT", None, 0, None, 1),
           ScopeData(u, "COMPANY", None, 0, None, None) }

\* The role of the user the scopes are created for: each of the five roles
\* the validator names, and a value it does not name. The users table puts
\* no constraint on the column.
CreateRoles == 1..6

InitCreate ==
    /\ perms = << >>
    /\ last = Blank
    /\ scopes = << >>
    /\ departments = << >>
    /\ employees = << >>
    /\ requests = << >>
    /\ role \in { <<r, 2>> : r \in CreateRoles }

\* Scope creation alone, for one target user of every role and for a user
\* that does not exist.
NextCreate ==
    \/ \E data \in CreateInputs(1) : CreateUserScope(data)
    \/ \E data \in ScopeInputs(UnknownUser) : CreateUserScope(data)

SpecCreate == InitCreate /\ [][NextCreate]_vars

\* The ids a hierarchy request names: every row the table can hold, and one
\* id beyond them.
NodeIds == 1..(MaxNodes + 1)

\* Creation and re-parenting of departments, one call at a time, with every
\* node and every parent.
DepartmentNext ==
    \/ \E p \in NodeIds \cup {None} :
          Len(departments) < MaxNodes /\ CreateDepartment(p)
    \/ \E n \in NodeIds, p \in NodeIds \cup {None} : UpdateDepartment(n, p)

\* Creation and re-assignment of employees, one call at a time, with every
\* employee and every supervisor.
EmployeeNext ==
    \/ \E p \in NodeIds \cup {None} :
          Len(employees) < MaxNodes /\ CreateEmployee(p)
    \/ \E n \in NodeIds, p \in NodeIds \cup {None} : UpdateEmployee(n, p)

\* A behaviour works on one of the two hierarchies.
NextHier ==
    \/ employees = << >> /\ DepartmentNext
    \/ departments = << >> /\ EmployeeNext

SpecHier == Init /\ [][NextHier]_vars

\* The number of rows of the tables the depth of the guard is tried on: a
\* chain of up to MAX_HIERARCHY_DEPTH + 1 nodes and a second, detached chain.
DeepNodes == MAX_HIERARCHY_DEPTH + 2

\* The parents of DeepNodes nodes in two chains: 1 <- 2 <- ... <- k and
\* k+1 <- ... <- DeepNodes.
TwoChains(k) ==
    [i \in 1..DeepNodes |-> IF i = 1 \/ i = k + 1 THEN None ELSE i - 1]

\* The lengths of the first chain: one below the depth limit, at the limit
\* and one above it.
ChainLengths == (MAX_HIERARCHY_DEPTH - 1)..(MAX_HIERARCHY_DEPTH + 1)

\* One of the two tables holds two chains, built by earlier creations.
InitDepth ==
    /\ perms = << >>
    /\ last = Blank
    /\ scopes = << >>
    /\ role = <<1, 2>>
    /\ requests = << >>
    /\ \E k \in ChainLengths :
          \/ /\ departments = [i \in 1..DeepNodes |-> Department(TwoChains(k)[i])]
             /\ employees = << >>
          \/ /\ employees = [i \in 1..DeepNodes |-> Employee(TwoChains(k)[i])]
             /\ departments = << >>

\* The nodes that are re-parented: the last two of the table.
Movers == {DeepNodes - 1, DeepNodes}

\* The parents proposed to a moved node: every node, a node that does not
\* exist, and none.
ProposedParents == 1..(DeepNodes + 2) \cup {None}

\* The parents of a new node: the nodes around the depth limit, or none.
NewNodeParents == (MAX_HIERARCHY_DEPTH - 1)..DeepNodes \cup {None}

\* Re-parenting and creation around the depth limit, on one hierarchy.
NextDepth ==
    \/ \E n \in Movers, p \in ProposedParents :
          departments # << >> /\ UpdateDepartment(n, p)
    \/ \E p \in NewNodeParents :
          departments # << >> /\ Len(departments) <= DeepNodes /\ CreateDepartment(p)
    \/ \E n \in Movers, p \in ProposedParents :
          employees # << >> /\ UpdateEmployee(n, p)
    \/ \E p \in NewNodeParents :
          employees # << >> /\ Len(employees) <= DeepNodes /\ CreateEmployee(p)

SpecDepth == InitDepth /\ [][NextDepth]_vars

\* The parents of DeepNodes nodes of which the first c form a ring
\* 1 -> 2 -> ... -> c -> 1, as concurrent updates can leave it; the others
\* are roots.
Ring(c) ==
    [i \in 1..DeepNodes |-> IF i < c THEN i + 1 ELSE IF i = c THEN 1 ELSE None]

\* A ring of c nodes with a chain c+1 -> c, c+2 -> c+1, ... leading into it;
\* the last node is a root.
RingWithTail(c) ==
    [i \in 1..DeepNodes |->
        IF i < c THEN i + 1 ELSE IF i = c THEN 1
        ELSE IF i < DeepNodes THEN i - 1 ELSE None]

\* The sizes of the rings tried: the smallest, and those around the depth
\* limit.
RingSizes == {2, MAX_HIERARCHY_DEPTH, MAX_HIERARCHY_DEPTH + 1, DeepNodes}

\* The parent maps the guards are run on: rings, a ring with a tail, a
\* chain at the depth limit with a second chain, and one chain of all nodes.
WalkedMaps ==
    { Ring(c) : c \in RingSizes }
    \cup { RingWithTail(3), TwoChains(MAX_HIERARCHY_DEPTH), TwoChains(DeepNodes) }

\* One of the two tables holds one of the walked maps.
InitWalk ==
    /\ perms = << >>
    /\ last = Blank
    /\ scopes = << >>
    /\ role = <<1, 2>>
    /\ requests = << >>
    /\ \E par \in WalkedMaps :
          \/ /\ departments = [i \in 1..DeepNodes |-> Department(par[i])]
             /\ employees = << >>
          \/ /\ employees = [i \in 1..DeepNodes |-> Employee(par[i])]
             /\ departments = << >>

SpecWalk == InitWalk /\ [][NextDepth]_vars

\* One of the two tables holds RaceNodes roots, built by earlier creations;
\* every session is between two requests.
InitRace ==
    /\ perms = << >>
    /\ last = Blank
    /\ scopes = << >>
    /\ role = <<1, 2>>
    /\ requests = [r \in Sessions |-> Idle]
    /\ \/ /\ departments = [i \in 1..RaceNodes |-> Department(None)]
          /\ employees = << >>
       \/ /\ employees = [i \in 1..RaceNodes |-> Employee(None)]
          /\ departments = << >>

\* Update requests served by the sessions, their steps interleaved.
NextRace ==
    \/ \E r \in Sessions, n \in 1..RaceNodes, p \in 1..RaceNodes \cup {None} :
          ValidateDepartmentUpdate(r, n, p)
    \/ \E r \in Sessions : WriteDepartmentUpdate(r)
    \/ \E r \in Sessions, n \in 1..RaceNodes, p \in 1..RaceNodes \cup {None} :
          ValidateEmployeeUpdate(r, n, p)
    \/ \E r \in Sessions : WriteEmployeeUpdate(r)

SpecRace == InitRace /\ [][NextRace]_vars

\* Every session is between two requests and the grant table is empty.
InitBulkRace ==
    /\ perms = << >>
    /\ last = Blank
    /\ scopes = << >>
    /\ departments = << >>
    /\ employees = << >>
    /\ role = <<1, 2>>
    /\ requests = [r \in Sessions |-> BulkIdle]

\* Bulk updates served by the sessions, their steps interleaved.
NextBulkRace ==
    \/ \E r \in Sessions, u \in Users, grants \in BulkMaps :
          ClearBulkUpdate(r, u, grants)
    \/ \E r \in Sessions : InsertBulkUpdate(r)

SpecBulkRace == InitBulkRace /\ [][NextBulkRace]_vars

\* The endpoints the resolver is asked about: the two that hold grants, and
\* one no grant is ever stored for.
ResolverEndpoints == Endpoints \cup {PlainPath}

\* The resolver in front of the grant store, whatever the store's state.
NextResolver ==
    \/ GrantNext
    \/ \E store \in StoreStates, u \in Users \cup {UnknownUser},
          e \in ResolverEndpoints, m \in Methods : ResolveOnStore(store, u, e, m)

SpecResolver == Init /\ [][NextResolver]_vars

\* A path has been received and not normalized yet.
InitPaths ==
    /\ perms = << >>
    /\ scopes = << >>
    /\ departments = << >>
    /\ employees = << >>
    /\ requests = << >>
    /\ role = <<1, 2>>
    /\ \E p \in PathInputs : last = [Blank EXCEPT !.op = "path", !.endpoint = p]

SpecPaths == InitPaths /\ [][NormalizeEndpoint]_vars

\* Maps submitted to the bulk update with one violation, with two violations
\* on two entries, with two violations on one entry, and a valid map.
CheckedMaps ==
    { << <<BasePath, "GET", TRUE>> >>,
      << <<PlainPath, "GET", TRUE>> >>,
      << <<BasePath, BadMethod, TRUE>> >>,
      << StringValued(BasePath, "GET") >>,
      << <<PlainPath, BadMethod, TRUE>> >>,
      << <<BasePath, "GET", TRUE>>, <<PlainPath, "GET", TRUE>> >>,
      << <<BasePath, BadMethod, TRUE>>, StringValued(SpecificPath, "GET") >>,
      << StringValued(BasePath, BadMethod) >> }

\* Bulk updates of checked maps on a grant store filled by single grants.
NextBulkCheck ==
    \/ GrantNext
    \/ \E u \in Users, grants \in CheckedMaps : BulkUpdate(u, grants)

SpecBulkCheck == Init /\ [][NextBulkCheck]_vars

\* The maps of the bulk updates that run next to another user's grants: an
\* empty map, two valid maps and a map the validation rejects.
IsolationMaps ==
    { << >>,
      << <<BasePath, "GET", TRUE>> >>,
      << <<SpecificPath, "GET", FALSE>> >>,
      << <<PlainPath, "GET", TRUE>> >> }

\* Single grants for both users, bulk updates of either user and calls of
\* the resolver.
NextIsolation ==
    \/ \E u \in Users, k \in GrantKeys, a \in BOOLEAN :
          CreatePermission(u, k[1], k[2], a)
    \/ \E u \in Users, grants \in IsolationMaps : BulkUpdate(u, grants)
    \/ \E u \in Users, e \in Endpoints, m \in Methods : HasPermission(u, e, m)

SpecIsolation == Init /\ [][NextIsolation]_vars

\* ------------------------------------------------------------- properties

\* Row i is a non-deleted, active grant for (u, e, m).
LiveGrant(rows, i, u, e, m) ==
    /\ rows[i].user_id = u
    /\ rows[i].endpoint = e
    /\ rows[i].method = m
    /\ ~rows[i].is_deleted
    /\ rows[i].is_active

\* Row i is a non-deleted grant for (u, e, m).
StoredGrant(rows, i, u, e, m) ==
    /\ rows[i].user_id = u
    /\ rows[i].endpoint = e
    /\ rows[i].method = m
    /\ ~rows[i].is_deleted

\* The non-deleted grants of user u, as (endpoint, method, allowed).
GrantSet(rows, u) ==
    { <<rows[i].endpoint, rows[i].method, rows[i].allowed>> :
        i \in {k \in DOMAIN rows : rows[k].user_id = u /\ ~rows[k].is_deleted} }

\* C1. Specific grant wins: when a non-deleted active grant exists for exactly
\* (u, e, m), has_permission(u, e, m) returns its allowed value, whatever the
\* grant for the base path says.
SpecificGrantWins ==
    last.op = "has_permission" =>
        \A i \in DOMAIN perms :
            LiveGrant(perms, i, last.user_id, last.endpoint, last.method)
                => last.result = perms[i].allowed

\* C1 witness: the resolver was asked for the sub-route, whose own grant says
\* false while the grant of the entity root says true, and answered false.
SpecificGrantWinsWitness ==
    /\ last.op = "has_permission"
    /\ last.endpoint = SpecificPath
    /\ last.result = FALSE
    /\ \E i, j \in DOMAIN perms :
          /\ LiveGrant(perms, i, last.user_id, SpecificPath, last.method)
          /\ perms[i].allowed = FALSE
          /\ LiveGrant(perms, j, last.user_id, BasePath, last.method)
          /\ perms[j].allowed = TRUE

\* C2. Default deny: has_permission(u, e, m) returns false whenever no
\* non-deleted active grant exists for (u, e, m) nor for
\* (u, normalize(e), m).
DefaultDeny ==
    last.op = "has_permission" =>
        ((\A i \in DOMAIN perms :
             /\ ~LiveGrant(perms, i, last.user_id, last.endpoint, last.method)
             /\ ~LiveGrant(perms, i, last.user_id,
                           normalize_endpoint(last.endpoint), last.method))
         => last.result = FALSE)

\* C2 witness: the resolver denied a user who holds no grant at all while
\* another user holds an allowing grant for the very same endpoint and method.
DefaultDenyWitness ==
    /\ last.op = "has_permission"
    /\ last.result = FALSE
    /\ \A i \in DOMAIN perms : perms[i].user_id # last.user_id
    /\ \E i \in DOMAIN perms :
          /\ LiveGrant(perms, i, perms[i].user_id, last.endpoint, last.method)
          /\ perms[i].allowed = TRUE

\* C3. Base fallback: with no non-deleted active grant for exactly (u, e, m)
\* and normalize(e) different from e, has_permission(u, e, m) returns the
\* allowed value of the grant for (u, normalize(e), m) when there is one.
BaseFallback ==
    (/\ last.op = "has_permission"
     /\ normalize_endpoint(last.endpoint) # last.endpoint
     /\ \A i \in DOMAIN perms :
           ~LiveGrant(perms, i, last.user_id, last.endpoint, last.method))
    => \A j \in DOMAIN perms :
           LiveGrant(perms, j, last.user_id,
                     normalize_endpoint(last.endpoint), last.method)
               => last.result = perms[j].allowed

\* C3 witness: the resolver allowed a sub-route request on the strength of
\* the entity-root grant alone.
BaseFallbackWitness ==
    /\ last.op = "has_permission"
    /\ last.endpoint = SpecificPath
    /\ last.result = TRUE
    /\ \A i \in DOMAIN perms :
          ~LiveGrant(perms, i, last.user_id, SpecificPath, last.method)
    /\ \E j \in DOMAIN perms :
          /\ LiveGrant(perms, j, last.user_id, BasePath, last.method)
          /\ perms[j].allowed = TRUE

\* C4. Bulk update atomicity: a bulk update that fails in its insert phase
\* leaves the non-deleted grants of the user, and every answer of the
\* resolver, as they were before the call.
BulkUpdateAtomic ==
    [][ (last'.op = "bulk_update" /\ last'.outcome = "business_rule_error")
        => /\ GrantSet(perms', last'.user_id) = GrantSet(perms, last'.user_id)
           /\ \A e \in Endpoints, m \in Methods :
                 has_permission(perms', last'.user_id, e, m)
                     = has_permission(perms, last'.user_id, e, m) ]_vars

\* C5. Bulk replace installs exactly the submitted set: every structurally
\* valid map succeeds, and afterwards the non-deleted grants of the user are
\* one row per entry of the map and nothing else.
BulkInstallsSubmittedSet ==
    (last.op = "bulk_update" /\ ValidMap(last.grants)) =>
        /\ last.outcome = "ok"
        /\ GrantSet(perms, last.user_id)
              = { last.grants[k] : k \in DOMAIN last.grants }
        /\ Cardinality({i \in DOMAIN perms :
                           perms[i].user_id = last.user_id /\ ~perms[i].is_deleted})
              = Len(last.grants)

\* C8. Grant uniqueness: at most one non-deleted grant exists for each
\* (user_id, endpoint, method), and create_permission for a tuple that already
\* has a non-deleted grant ends in an already-exists conflict and changes
\* nothing.
GrantUniqueness ==
    /\ [](\A i, j \in DOMAIN perms :
             StoredGrant(perms, i, perms[j].user_id, perms[j].endpoint,
                         perms[j].method) /\ ~perms[j].is_deleted
                 => i = j)
    /\ [][ (/\ last'.op = "create_permission"
            /\ \E i \in DOMAIN perms :
                  StoredGrant(perms, i, last'.user_id, last'.endpoint,
                              last'.method))
           => (last'.outcome = "already_exists" /\ perms' = perms) ]_vars

\* C8 witness: a create_permission was rejected as a conflict while the
\* grant it collided with is in the table.
GrantUniquenessWitness ==
    /\ last.op = "create_permission"
    /\ last.outcome = "already_exists"
    /\ \E i \in DOMAIN perms :
          StoredGrant(perms, i, last.user_id, last.endpoint, last.method)

\* C9. Uniqueness applies only among non-deleted rows: once the grant for
\* (u, e, m) is soft-deleted, create_permission for the same (u, e, m)
\* succeeds, leaves exactly one non-deleted grant for the tuple, and the
\* soft-deleted row stays in the table.
RecreateAfterSoftDelete ==
    [][ (/\ last'.op = "create_permission"
         /\ \E i \in DOMAIN perms :
               /\ perms[i].user_id = last'.user_id
               /\ perms[i].endpoint = last'.endpoint
               /\ perms[i].method = last'.method
               /\ perms[i].is_deleted
         /\ \A i \in DOMAIN perms :
               ~StoredGrant(perms, i, last'.user_id, last'.endpoint,
                            last'.method))
        => /\ last'.outcome = "ok"
           /\ Cardinality({i \in DOMAIN perms' :
                 StoredGrant(perms', i, last'.user_id, last'.endpoint,
                             last'.method)}) = 1
           /\ \A i \in DOMAIN perms : perms'[i] = perms[i] ]_vars

\* C6. Request-time override: for a Bearer request of user u to a sub-route
\* (more than 4 segments) the middleware follows the grant stored for the
\* sub-route itself, not the contradicting grant of the entity root: false
\* over true answers 403 without invoking the handler, true over false
\* invokes the handler.
RequestTimeOverride ==
    (/\ last.op = "dispatch"
     /\ last.auth = "bearer"
     /\ Len(Split(last.endpoint)) > 4)
    => \A i, j \in DOMAIN perms :
          (/\ LiveGrant(perms, i, last.user_id, last.endpoint, last.method)
           /\ LiveGrant(perms, j, last.user_id,
                        normalize_endpoint(last.endpoint), last.method)
           /\ perms[i].allowed # perms[j].allowed)
          => /\ last.forwarded = perms[i].allowed
             /\ ~perms[i].allowed => last.status = 403

\* The path is exactly one of the five allow-listed paths.
AllowListed(path) ==
    path \in { Join(<<Empty, W_token>>), Join(<<Empty, W_docs>>),
               Join(<<Empty, W_redoc>>), Join(<<Empty, W_openapi_json>>),
               Join(<<Empty, W_health>>) }

\* The path begins with one of the five allow-listed paths.
AllowListedPrefix(path) ==
    \E k \in 1..Len(path) : AllowListed(SubSeq(path, 1, k))

HasLiveScope(u) ==
    \E i \in DOMAIN scopes :
        /\ scopes[i].user_id = u
        /\ scopes[i].is_active = TRUE
        /\ scopes[i].is_deleted = FALSE

Populated(v) == v # None

\* The populated ids of the scope do not match its scope_type: GLOBAL with an
\* id, or another type without its own id or with one of the other three.
ShapeMismatch(d) ==
    LET bg == Populated(d.business_group_id)
        co == Populated(d.company_id)
        br == Populated(d.branch_id)
        de == Populated(d.department_id)
    IN  CASE d.scope_type = "GLOBAL" -> bg \/ co \/ br \/ de
          [] d.scope_type = "BUSINESS_GROUP" -> ~bg \/ co \/ br \/ de
          [] d.scope_type = "COMPANY" -> ~co \/ bg \/ br \/ de
          [] d.scope_type = "BRANCH" -> ~br \/ bg \/ co \/ de
          [] d.scope_type = "DEPARTMENT" -> ~de \/ bg \/ co \/ br
          [] OTHER -> TRUE

\* The step is a call of create_user_scope (the target user exists).
CreateCalled ==
    /\ last'.op = "create_user_scope"
    /\ last'.outcome # "not_found"

\* C11: scope exclusivity on creation: every call of create_user_scope with a
\* scope whose populated ids do not match its scope_type ends in a validation
\* error and stores nothing.
ScopeExclusivityOnCreate ==
    [][(CreateCalled /\ ShapeMismatch(last'.scope))
          => (last'.outcome = "validation_error" /\ scopes' = scopes)]_vars

\* The weaker reading of C11, any rejection instead of a validation error:
\* a scope whose populated ids do not match its scope_type is never stored.
MismatchNeverStored ==
    [][(CreateCalled /\ ShapeMismatch(last'.scope))
          => (last'.outcome # "ok" /\ scopes' = scopes)]_vars

\* C14: Collaborator and Guest hold no scope: create_user_scope for a target
\* user of role 4 or 5 is rejected and stores nothing, for every scope_type
\* and every combination of ids, and the rejection of a well-formed scope is a
\* business-rule error.
NoScopeForCollaboratorOrGuest ==
    [][(CreateCalled /\ role[last'.user_id] \in {4, 5})
          => /\ last'.outcome \in {"business_rule_error", "validation_error"}
             /\ scopes' = scopes
             /\ ~ShapeMismatch(last'.scope)
                   => last'.outcome = "business_rule_error"]_vars

\* A well-formed BRANCH scope was submitted for a Guest and rejected with a
\* business-rule error.
NoScopeForCollaboratorOrGuestWitness ==
    /\ last.op = "create_user_scope"
    /\ role[1] = 5
    /\ last.user_id = 1
    /\ last.scope.scope_type = "BRANCH"
    /\ ~ShapeMismatch(last.scope)
    /\ last.outcome = "business_rule_error"
    /\ scopes = << >>

\* The scope types fixed for a role.
AllowedScopeTypes(r) ==
    CASE r = 1 -> ScopeTypes
      [] r = 2 -> {"BUSINESS_GROUP", "COMPANY", "BRANCH"}
      [] r = 3 -> {"DEPARTMENT"}
      [] OTHER -> {}

\* C15: the role determines the permitted scope types: every scope a
\* successful create_user_scope stores has a scope_type in the set fixed for
\* the role of its user: 3 only DEPARTMENT, 2 only BUSINESS_GROUP, COMPANY or
\* BRANCH, 1 any type, every other role value none.
RoleDeterminesScopeTypes ==
    \A i \in DOMAIN scopes :
        scopes[i].scope_type \in AllowedScopeTypes(role[scopes[i].user_id])

\* C15 for the roles the validator names.
NamedRoleDeterminesScopeTypes ==
    \A i \in DOMAIN scopes :
        role[scopes[i].user_id] \in 1..5
          => scopes[i].scope_type \in AllowedScopeTypes(role[scopes[i].user_id])

\* C12: scope shape invariant: in every state reachable by create_user_scope,
\* update_user_scope and delete_user_scope calls, every non-deleted scope
\* record has exactly the id that matches its scope_type populated and the
\* other three empty (a GLOBAL record has none).
ScopeShapeInvariant ==
    \A i \in DOMAIN scopes :
        scopes[i].is_deleted = FALSE => ~ShapeMismatch(scopes[i])

\* Two different non-deleted records with the same user, type and entity id.
DuplicateScopes(i, j) ==
    /\ i # j
    /\ scopes[i].is_deleted = FALSE
    /\ scopes[j].is_deleted = FALSE
    /\ scopes[i].user_id = scopes[j].user_id
    /\ scopes[i].scope_type = scopes[j].scope_type
    /\ entity_id_of(scopes[i]) = entity_id_of(scopes[j])

\* The scope submitted names a triple that a non-deleted record holds.
TripleHeld(d) ==
    \E i \in DOMAIN scopes :
        /\ scopes[i].is_deleted = FALSE
        /\ scopes[i].user_id = d.user_id
        /\ scopes[i].scope_type = d.scope_type
        /\ entity_id_of(scopes[i]) = entity_id_of(d)

\* C13: no duplicate scopes: in every state reachable by create_user_scope,
\* update_user_scope and delete_user_scope calls no two non-deleted records
\* share (user_id, scope_type, entity_id), and a create for a triple that a
\* non-deleted record holds ends in an already-exists conflict, not in a
\* validation error, and stores nothing.
NoDuplicateScopes ==
    /\ [](\A i \in DOMAIN scopes : \A j \in DOMAIN scopes : ~DuplicateScopes(i, j))
    /\ [][(CreateCalled /\ ~ShapeMismatch(last'.scope) /\ TripleHeld(last'.scope)
             /\ _validate_user_scope_data(last'.scope, role[last'.user_id]) = "ok")
            => (last'.outcome = "already_exists" /\ scopes' = scopes)]_vars

\* The part of C13 about creation alone.
CreateConflictIsAlreadyExists ==
    [][(CreateCalled /\ TripleHeld(last'.scope)
             /\ _validate_user_scope_data(last'.scope, role[last'.user_id]) = "ok")
            => (last'.outcome = "already_exists" /\ scopes' = scopes)]_vars

\* ---------------------------------------------------------- hierarchy claims

\* The parent of every department, and the supervisor of every employee.
DepartmentParents == [i \in DOMAIN departments |-> departments[i].parent_id]

EmployeeSupervisors == [i \in DOMAIN employees |-> employees[i].supervisor_id]

\* Following the links from cur comes back to a node already visited.
RECURSIVE Revisits(_, _, _)
Revisits(par, cur, visited) ==
    IF cur \notin DOMAIN par THEN FALSE
    ELSE IF cur \in visited THEN TRUE
    ELSE Revisits(par, par[cur], visited \cup {cur})

Acyclic(par) == \A n \in DOMAIN par : ~Revisits(par, n, {})

\* The nodes on the chain that starts at cur (cur included), for an acyclic
\* map.
RECURSIVE ChainOf(_, _)
ChainOf(par, cur) ==
    IF cur \notin DOMAIN par THEN {} ELSE {cur} \cup ChainOf(par, par[cur])

\* C16: the hierarchy stays acyclic: after any sequence of successful
\* create_department / update_department calls, and of create_employee /
\* update_employee calls, executed one at a time from an acyclic map,
\* following parent_id or supervisor_id from any node never revisits a node.
HierarchyStaysAcyclic ==
    Acyclic(DepartmentParents) /\ Acyclic(EmployeeSupervisors)

\* A successful re-parenting has just put a department under a department
\* that has a parent itself.
HierarchyStaysAcyclicWitness ==
    /\ last.op = "update_department"
    /\ last.outcome = "ok"
    /\ last.parent_id # None
    /\ departments[last.id].parent_id = last.parent_id
    /\ departments[last.parent_id].parent_id # None

\* The call is an update of an existing node n with an existing proposed
\* parent p, n being p or an ancestor of p.
NodeInProposedAncestry(op, par) ==
    /\ last'.op = op
    /\ last'.id \in DOMAIN par
    /\ last'.parent_id \in DOMAIN par
    /\ last'.id \in ChainOf(par, last'.parent_id)

\* The call is the creation of a node under an existing parent.
NewNodeUnderParent(op, par) ==
    /\ last'.op = op
    /\ last'.parent_id \in DOMAIN par

\* C18: the cycle guard rejects a node in its own proposed ancestry: an update
\* of node n with proposed parent p, in the department and in the employee
\* hierarchy, ends in a business-rule error and writes no link whenever n is p
\* or n occurs in the ancestor chain of p; the creation of a new node under
\* the same p, whose ancestry is acyclic and within depth, succeeds.
GuardRejectsOwnAncestry ==
    /\ [][NodeInProposedAncestry("update_department", DepartmentParents)
            => (last'.outcome = "business_rule_error" /\ departments' = departments)]_vars
    /\ [][NodeInProposedAncestry("update_employee", EmployeeSupervisors)
            => (last'.outcome = "business_rule_error" /\ employees' = employees)]_vars
    /\ [][NewNodeUnderParent("create_department", DepartmentParents)
            => (last'.outcome = "ok" /\ Len(departments') = Len(departments) + 1)]_vars
    /\ [][NewNodeUnderParent("create_employee", EmployeeSupervisors)
            => (last'.outcome = "ok" /\ Len(employees') = Len(employees) + 1)]_vars

\* An employee was refused a supervisor that is neither the employee nor a
\* direct report of the employee: the cycle would have been transitive.
GuardRejectsOwnAncestryWitness ==
    /\ last.op = "update_employee"
    /\ last.outcome = "business_rule_error"
    /\ last.id # last.parent_id
    /\ last.parent_id \in DOMAIN employees
    /\ employees[last.parent_id].supervisor_id # last.id
    /\ last.id \in ChainOf(EmployeeSupervisors, last.parent_id)

\* The number of ancestors of node n.
Ancestors(par, n) == Cardinality(ChainOf(par, n)) - 1

\* C17: the hierarchy depth stays bounded: after any sequence of successful
\* create and update operations on departments, and on employees, no node has
\* more than MAX_HIERARCHY_DEPTH (10) ancestors.
HierarchyDepthBounded ==
    /\ \A n \in DOMAIN departments :
          Ancestors(DepartmentParents, n) <= MAX_HIERARCHY_DEPTH
    /\ \A n \in DOMAIN employees :
          Ancestors(EmployeeSupervisors, n) <= Employee_MAX_HIERARCHY_DEPTH

\* The call is a re-parenting of an existing node n to an existing parent p
\* whose chain does not contain n.
ReparentingOutsideChain(op, par) ==
    /\ last'.op = op
    /\ last'.id \in DOMAIN par
    /\ last'.parent_id \in DOMAIN par
    /\ last'.id \notin ChainOf(par, last'.parent_id)

DepthExceeded ==
    last'.outcome = "business_rule_error" /\ last'.detail = "depth_exceeded"

\* C19: the depth threshold of the guard: a re-parenting of node n to a parent
\* p whose ancestry is acyclic and does not contain n fails with the
\* depth-exceeded error if and only if the chain from p (p included) to the
\* root has more than 10 nodes, in the department and in the employee
\* hierarchy: a chain of 11 fails, a chain of 10 passes.
DepthThreshold ==
    /\ [][ReparentingOutsideChain("update_department", DepartmentParents)
            => (DepthExceeded <=>
                  Cardinality(ChainOf(DepartmentParents, last'.parent_id))
                     > MAX_HIERARCHY_DEPTH)]_vars
    /\ [][ReparentingOutsideChain("update_employee", EmployeeSupervisors)
            => (DepthExceeded <=>
                  Cardinality(ChainOf(EmployeeSupervisors, last'.parent_id))
                     > Employee_MAX_HIERARCHY_DEPTH)]_vars

\* A department was just put under the last node of a chain of exactly
\* MAX_HIERARCHY_DEPTH nodes.
DepthThresholdWitness ==
    /\ last.op = "update_department"
    /\ last.outcome = "ok"
    /\ last.parent_id \in DOMAIN departments
    /\ departments[last.id].parent_id = last.parent_id
    /\ Cardinality(ChainOf(DepartmentParents, last.parent_id)) = MAX_HIERARCHY_DEPTH

\* C20: the cycle guard under concurrency: for every interleaving of
\* concurrent re-parenting requests on the same hierarchy, each on its own
\* session, the committed parent map is acyclic once the requests have
\* finished.
AcyclicUnderConcurrency ==
    (\A r \in DOMAIN requests : requests[r].pc = "idle")
        => (Acyclic(DepartmentParents) /\ Acyclic(EmployeeSupervisors))


\* ------------------------------------------------------ later grant claims

\* The entries of a submitted map, as a set of (endpoint, method, allowed).
MapSet(grants) == { grants[k] : k \in DOMAIN grants }

\* C21: concurrent bulk updates are last-writer-wins: when two bulk updates
\* of the same user with valid maps G1 and G2 have both finished, the
\* non-deleted grants of the user are exactly G1 or exactly G2, never a
\* mixture of rows of both.
BulkLastWriterWins ==
    \A r1, r2 \in DOMAIN requests :
        (/\ r1 # r2
         /\ requests[r1].pc = "done" /\ requests[r1].outcome = "ok"
         /\ requests[r2].pc = "done" /\ requests[r2].outcome = "ok"
         /\ requests[r1].user_id = requests[r2].user_id)
        => GrantSet(perms, requests[r1].user_id)
              \in {MapSet(requests[r1].grants), MapSet(requests[r2].grants)}

\* The second half of C21: the non-deleted grants of a user never hold two
\* rows for the same endpoint and method, whatever the interleaving.
BulkRaceKeepsUniqueness ==
    \A i, j \in DOMAIN perms :
        (/\ StoredGrant(perms, i, perms[j].user_id, perms[j].endpoint, perms[j].method)
         /\ ~perms[j].is_deleted) => i = j

\* C22: the resolver never fails: has_permission returns a boolean for every
\* (user_id, endpoint, method), unknown users and endpoints included, and
\* when a store lookup fails it returns false instead of raising.
ResolverNeverFails ==
    (last.op = "has_permission" /\ last.detail \in StoreStates) =>
        /\ last.outcome = "returned"
        /\ last.result \in BOOLEAN
        /\ (last.detail = "down" => last.result = FALSE)

\* The first half of C22: while the store answers, has_permission returns a
\* boolean, and denies for a user or an endpoint that holds no grant.
ResolverTotalOnWorkingStore ==
    (last.op = "has_permission" /\ last.detail = "up") =>
        /\ last.outcome = "returned"
        /\ last.result \in BOOLEAN
        /\ (last.user_id = UnknownUser \/ last.endpoint = PlainPath)
              => last.result = FALSE

\* The number of violations in a submitted map: one for every endpoint key
\* outside the API prefix, one for every method that is not a recognised
\* verb and one for every value that is not a boolean.
Violations(grants) ==
    Cardinality({grants[k][1] : k \in {j \in DOMAIN grants :
                                         ~StartsWith(grants[j][1], ApiPrefix)}})
    + Cardinality({k \in DOMAIN grants : grants[k][2] \notin VALID_METHODS})
    + Cardinality({k \in DOMAIN grants : ~isinstance_bool(grants[k])})

\* C27: bulk validation happens before any write and reports everything: a
\* map with any violation makes bulk_update_user_permissions raise a
\* validation error that holds one entry for every violation of the input,
\* and no grant is soft-deleted or inserted.
BulkValidationReportsAll ==
    [][ (last'.op = "bulk_update" /\ Violations(last'.grants) > 0)
        => (/\ last'.outcome = "validation_error"
            /\ perms' = perms
            /\ Cardinality(last'.errors) = Violations(last'.grants)) ]_vars

\* What holds of C27: a map with any violation is rejected with a validation
\* error that is not empty, before any write.
BulkValidationBeforeWrite ==
    [][ (last'.op = "bulk_update" /\ Violations(last'.grants) > 0)
        => (/\ last'.outcome = "validation_error"
            /\ perms' = perms
            /\ last'.errors # {}) ]_vars

\* The decision the non-deleted, active grants of the table give for
\* (u, e, m): the specific grant's value, else the base grant's, else deny.
LiveDecision(rows, u, e, m) ==
    IF \E i \in DOMAIN rows : LiveGrant(rows, i, u, e, m)
    THEN \E i \in DOMAIN rows : LiveGrant(rows, i, u, e, m) /\ rows[i].allowed
    ELSE \E i \in DOMAIN rows :
            LiveGrant(rows, i, u, normalize_endpoint(e), m) /\ rows[i].allowed

\* C29: soft-deleted and deactivated grants are invisible to the resolver:
\* has_permission(u, e, m) is the decision of the grants with
\* is_deleted = false and is_active = true alone, so once the specific grant
\* for (u, e, m) is soft-deleted the answer is the base grant's, if there is
\* one, and deny otherwise.
DeletedGrantsInvisible ==
    last.op = "has_permission" =>
        last.result = LiveDecision(perms, last.user_id, last.endpoint, last.method)

\* has_permission was asked about a sub-route whose own grant, an allow, has
\* been soft-deleted.
DeletedGrantsInvisibleWitness ==
    /\ last.op = "has_permission"
    /\ last.endpoint = SpecificPath
    /\ \E i \in DOMAIN perms :
          /\ perms[i].user_id = last.user_id
          /\ perms[i].endpoint = last.endpoint
          /\ perms[i].method = last.method
          /\ perms[i].is_deleted
          /\ perms[i].allowed
    /\ ~\E i \in DOMAIN perms :
          LiveGrant(perms, i, last.user_id, last.endpoint, last.method)
    /\ ~last.result

\* C30: per-user isolation of grant mutations: a bulk update of user u,
\* whether it succeeds or fails, and a call of has_permission leave every
\* grant row of every other user as it was and add none, so has_permission
\* answers the same for every other user before and after.
OtherUsersUntouched ==
    [][ /\ last'.op = "has_permission" => perms' = perms
        /\ last'.op = "bulk_update" =>
              /\ \A i \in DOMAIN perms :
                    perms[i].user_id # last'.user_id
                       => (i \in DOMAIN perms' /\ perms'[i] = perms[i])
              /\ \A i \in DOMAIN perms' \ DOMAIN perms :
                    perms'[i].user_id = last'.user_id
              /\ \A v \in Users \ {last'.user_id}, e \in Endpoints, m \in Methods :
                    has_permission(perms', v, e, m) = has_permission(perms, v, e, m)
      ]_vars

\* A bulk update of one user has replaced that user's grants while another
\* user holds a grant that allows.
OtherUsersUntouchedWitness ==
    /\ last.op = "bulk_update"
    /\ last.outcome = "ok"
    /\ \E i \in DOMAIN perms : perms[i].user_id = last.user_id /\ perms[i].is_deleted
    /\ \E i \in DOMAIN perms :
          /\ perms[i].user_id # last.user_id
          /\ ~perms[i].is_deleted
          /\ perms[i].allowed

\* --------------------------------------------------- normalization claims

\* C23: normalize_endpoint is idempotent: for every path p, empty segments
\* and trailing slashes included, normalizing the key normalize_endpoint(p)
\* returns that key again.
NormalizeIdempotent ==
    last.op = "normalize_endpoint" =>
        normalize_endpoint(last.asked) = last.asked

\* C23 on the routes of an entity: the key of /api/v1/<entity>/... is a
\* fixed point of normalize_endpoint.
NormalizeIdempotentOnEntityPaths ==
    (last.op = "normalize_endpoint" /\ last.endpoint \in EntityPaths) =>
        normalize_endpoint(last.asked) = last.asked

\* The first four '/'-separated segments of p and of q are equal.
SameFirstFour(p, q) ==
    /\ Len(Split(p)) >= 4
    /\ Len(Split(q)) >= 4
    /\ SubSeq(Split(p), 1, 4) = SubSeq(Split(q), 1, 4)

\* C24: same prefix, same base key: any two paths whose first four segments
\* are equal normalize to the same key.
SamePrefixSameKey ==
    last.op = "normalize_endpoint" =>
        \A q \in PathInputs :
            SameFirstFour(last.endpoint, q) => normalize_endpoint(q) = last.asked

\* The particular case of C24: /api/v1/<entity>, /api/v1/<entity>/,
\* /api/v1/<entity>/<id> and /api/v1/<entity>/<id>/<action> all normalize to
\* /api/v1/<entity>.
EntityRoutesShareBaseKey ==
    (last.op = "normalize_endpoint" /\ last.endpoint \in EntityPaths) =>
        last.asked = BasePath

\* ------------------------------------------------- later hierarchy claims

\* The verdict of a guard, whatever hierarchy it ran on: "ok", or the kind
\* of BusinessRuleError it raised.
Verdict(detail) ==
    CASE detail \in {"own_parent", "own_supervisor", "in_own_chain"}
             -> "node_in_ancestry"
      [] detail = "circular_reference" -> "cycle_in_ancestry"
      [] detail = "depth_exceeded" -> "depth_exceeded"
      [] OTHER -> "ok"

\* The departments table read as an employees table, and the reverse: the
\* same parent map in the other hierarchy.
AsEmployees(rows) == [i \in DOMAIN rows |-> Employee(rows[i].parent_id)]

AsDepartments(rows) == [i \in DOMAIN rows |-> Department(rows[i].supervisor_id)]

\* The verdict create_department or update_department would reach on node
\* id (None on creation) and proposed parent p.
DepartmentVerdict(rows, id, p) ==
    IF id = None /\ ~Truthy(rows[p].parent_id) THEN "ok"
    ELSE Verdict(_validate_no_circular_reference(rows, id, p))

\* The verdict create_employee or update_employee would reach.
EmployeeVerdict(rows, id, p) ==
    Verdict(_validate_no_circular_supervisor(rows, id, p))

\* The last call reached the guard of its service.
GuardRan(l) ==
    /\ l.outcome \in {"ok", "business_rule_error"}
    /\ Truthy(l.parent_id)

\* The node id the guard was called with.
GuardedNode(l) ==
    IF l.op \in {"create_department", "create_employee"} THEN None ELSE l.id

\* C25: one guard for both hierarchies: the guard of the department service
\* and the guard of the employee service, as their create and update
\* operations invoke them, give the same verdict for the same node id,
\* proposed parent and parent map.
GuardsAgree ==
    [][ /\ (last'.op \in {"create_department", "update_department"} /\ GuardRan(last'))
           => Verdict(last'.detail)
                 = EmployeeVerdict(AsEmployees(departments), GuardedNode(last'),
                                   last'.parent_id)
        /\ (last'.op \in {"create_employee", "update_employee"} /\ GuardRan(last'))
           => Verdict(last'.detail)
                 = DepartmentVerdict(AsDepartments(employees), GuardedNode(last'),
                                     last'.parent_id) ]_vars

\* C25 on updates alone: for a node that exists, the two guards agree.
GuardsAgreeOnUpdate ==
    [][ /\ (last'.op = "update_department" /\ GuardRan(last'))
           => Verdict(last'.detail)
                 = EmployeeVerdict(AsEmployees(departments), last'.id, last'.parent_id)
        /\ (last'.op = "update_employee" /\ GuardRan(last'))
           => Verdict(last'.detail)
                 = DepartmentVerdict(AsDepartments(employees), last'.id,
                                     last'.parent_id) ]_vars

\* C28: the walk of the guard ends within the depth bound: for every parent
\* map, cyclic or not, every node and every starting parent, the ancestry
\* walk of the department guard and of the employee guard looks at no more
\* than MAX_HIERARCHY_DEPTH + 1 nodes.
WalkBounded ==
    /\ \A n \in DOMAIN departments \cup {None}, p \in DOMAIN departments :
          Len(department_guard_trace(departments, n, p)) <= MAX_HIERARCHY_DEPTH + 1
    /\ \A n \in DOMAIN employees \cup {None}, p \in DOMAIN employees :
          Len(employee_guard_trace(employees, n, p))
              <= Employee_MAX_HIERARCHY_DEPTH + 1

\* An update was refused for its depth on a map that holds a ring, after a
\* walk of MAX_HIERARCHY_DEPTH + 1 nodes.
WalkBoundedWitness ==
    \/ /\ last.op = "update_department"
       /\ last.detail = "depth_exceeded"
       /\ ~Acyclic(DepartmentParents)
       /\ Len(department_guard_trace(departments, last.id, last.parent_id))
             = MAX_HIERARCHY_DEPTH + 1
    \/ /\ last.op = "update_employee"
       /\ last.detail = "depth_exceeded"
       /\ ~Acyclic(EmployeeSupervisors)
       /\ Len(employee_guard_trace(employees, last.id, last.parent_id))
             = Employee_MAX_HIERARCHY_DEPTH + 1

\* ----------------------------------------------------- later scope claims

\* C26: error kind for a role/scope mismatch: create_user_scope with a
\* structurally valid scope whose scope_type is not permitted for the role
\* of the target user (a Manager given DEPARTMENT or GLOBAL, a Supervisor
\* given anything but DEPARTMENT) ends in a business-rule error, not in a
\* validation error or a conflict, and stores nothing.
RoleMismatchIsBusinessRuleError ==
    [][ (/\ CreateCalled
         /\ role[last'.user_id] \in {2, 3}
         /\ ~ShapeMismatch(last'.scope)
         /\ last'.scope.scope_type \notin AllowedScopeTypes(role[last'.user_id]))
        => (last'.outcome = "business_rule_error" /\ scopes' = scopes) ]_vars

\* What holds of C26: such a request is rejected and stores nothing.
RoleMismatchIsRejected ==
    [][ (/\ CreateCalled
         /\ role[last'.user_id] \in {2, 3}
         /\ ~ShapeMismatch(last'.scope)
         /\ last'.scope.scope_type \notin AllowedScopeTypes(role[last'.user_id]))
        => (last'.outcome = "validation_error" /\ scopes' = scopes) ]_vars

====
